---- MODULE Spec2Model ----
(***************************************************************************)
(* State-machine model of the haozhu asynchronous client                   *)
(* (src/haozhu/client.py, src/haozhu/utils.py, src/haozhu/config.py).      *)
(*                                                                         *)
(* One client instance (HaoZhuClient) is modelled together with the tasks  *)
(* that call it.  An action runs a task from one suspension point (await   *)
(* of the network, of asyncio.sleep, of the resource's close) to the next. *)
(* Message texts are sequences of atoms; an atom stands for one keyword    *)
(* the classifier looks for (or for text that contains none of them):      *)
(*   "token" "Token" "TOKEN"   the word token in three letter cases        *)
(*   "login"    登录      "password" 密码                                  *)
(*   "balance"  余额      "deduct"   扣费                                  *)
(*   "number"   号码      "none"     无                                    *)
(*   "nothave"  没有      "short"    不足                                  *)
(*   "waiting"  等待      "sms"      短信      "other"  any other text     *)
(***************************************************************************)
EXTENDS Naturals, Sequences, FiniteSets, TLC

\* ---------------------------------------------------------------- bounds
MaxRetries == 2
MaxSessions == 2
MaxMsgLen == 2
MaxParams == 2

\* ------------------------------------------------------------- the tasks
MainTask == "t1"
Tasks == {"t1", "t2"}

\* --------------------------------------------------- response envelopes
Missing == "<missing>"

Atoms ==
    {"token", "Token", "TOKEN", "login", "password", "balance", "deduct",
     "number", "none", "nothave", "short", "waiting", "sms", "other"}

\* str.lower() on one atom: only the Latin word has letter cases.
lower_atom(a) == IF a \in {"Token", "TOKEN"} THEN "token" ELSE a

\* str.lower() on a message text.
lower(msg) == [i \in 1..Len(msg) |-> lower_atom(msg[i])]

\* Python's `kw in msg` for a keyword that is one atom.
contains(kw, msg) == \E i \in 1..Len(msg) : msg[i] = kw

\* A code as the JSON body carries it: an integer, a string, or absent.
IntCode(i) == [ty |-> "int", i |-> i, s |-> ""]
StrCode(s) == [ty |-> "str", i |-> 0, s |-> s]
NoCode == [ty |-> "missing", i |-> 0, s |-> ""]

Digit(d) == <<"0", "1", "2", "3", "4", "5", "6", "7", "8", "9">>[d + 1]

RECURSIVE str_nat(_)
str_nat(n) == IF n < 10 THEN Digit(n) ELSE str_nat(n \div 10) \o Digit(n % 10)

code_of_missing_is_zero(data) ==
    IF data.code.ty = "missing" THEN "0"
    ELSE IF data.code.ty = "int" THEN str_nat(data.code.i)
    ELSE data.code.s

\* code = str(data.get("code", "-1"))
code_of(data) ==
    IF data.code.ty = "missing" THEN "-1"
    ELSE IF data.code.ty = "int" THEN str_nat(data.code.i)
    ELSE data.code.s

\* msg = data.get("msg", "未知错误")
msg_of(data) == IF data.msg = <<Missing>> THEN <<"other">> ELSE data.msg

\* data.get("token", "")
token_of(data) == IF data.token = Missing THEN "" ELSE data.token

is_success_zero_only(code) == code = "0"

is_success(code) == code \in {"0", "200"}

\* The if/elif chain of _check_response over the message text.
classify_swapped(msg) ==
    IF contains("balance", msg) \/ contains("deduct", msg)
        THEN "InsufficientBalanceError"
    ELSE IF contains("token", lower(msg)) \/ contains("login", msg)
            \/ contains("password", msg)
        THEN "AuthenticationError"
    ELSE IF contains("number", msg)
            /\ (contains("none", msg) \/ contains("nothave", msg)
                \/ contains("short", msg))
        THEN "PhoneNotAvailableError"
    ELSE IF contains("waiting", msg)
            \/ (contains("sms", msg)
                /\ (contains("none", msg) \/ contains("nothave", msg)))
        THEN "MessageNotReadyError"
    ELSE "APIError"

classify(msg) ==
    IF contains("token", lower(msg)) \/ contains("login", msg)
            \/ contains("password", msg)
        THEN "AuthenticationError"
    ELSE IF contains("balance", msg) \/ contains("deduct", msg)
        THEN "InsufficientBalanceError"
    ELSE IF contains("number", msg)
            /\ (contains("none", msg) \/ contains("nothave", msg)
                \/ contains("short", msg))
        THEN "PhoneNotAvailableError"
    ELSE IF contains("waiting", msg)
            \/ (contains("sms", msg)
                /\ (contains("none", msg) \/ contains("nothave", msg)))
        THEN "MessageNotReadyError"
    ELSE "APIError"

\* _check_response(data, context): "ok" when it returns, else the kind raised.
check_response(data) ==
    IF is_success(code_of(data)) THEN "ok" ELSE classify(msg_of(data))


\* ------------------------------------------------------ request building
\* A Python value handed over as a request parameter.
PyNone == [ty |-> "none", i |-> 0, s |-> ""]
PyInt(i) == [ty |-> "int", i |-> i, s |-> ""]
PyStr(s) == [ty |-> "str", i |-> 0, s |-> s]

\* f"{value}"
format(v) ==
    IF v.ty = "int" THEN str_nat(v.i)
    ELSE IF v.ty = "str" THEN v.s
    ELSE "None"

\* Python truthiness: `if prefix:`
truthy(v) ==
    \/ v.ty = "int" /\ v.i # 0
    \/ v.ty = "str" /\ v.s # ""

is_not_none(v) == v.ty # "none"

\* One entry of the params dict, which keeps insertion order.
Param(key, value) == [key |-> key, value |-> value]

\* `params[key] = value` under `if cond:` for a key not yet in the dict.
set_if(params, cond, key, value) ==
    IF cond THEN Append(params, Param(key, value)) ELSE params

\* get_phone: the params dict handed to _request("getPhone", **params).
get_phone_params(tok, a) ==
    LET p0 == <<Param("token", PyStr(tok)), Param("sid", a.sid)>>
        p1 == set_if(p0, is_not_none(a.carrier), "operator", a.carrier)
        p2 == set_if(p1, is_not_none(a.province), "province", a.province)
        p3 == set_if(p2, is_not_none(a.phone_type), "phone_type",
                     a.phone_type)
        p4 == set_if(p3, truthy(a.prefix), "prefix", a.prefix)
        p5 == set_if(p4, truthy(a.exclude_prefix), "exclude_prefix",
                     a.exclude_prefix)
        p6 == set_if(p5, truthy(a.uid), "uid", a.uid)
    IN  set_if(p6, truthy(a.author), "author", a.author)

\* _build_url: `if value is not None:` keeps the parameter.
serialized_if_truthy(v) == truthy(v)

serialized(v) == is_not_none(v)

\* _build_url: the loop over params.items() that fills query_parts.
RECURSIVE query_parts(_, _)
query_parts(parts, params) ==
    IF params = <<>> THEN parts
    ELSE LET p == Head(params) IN
         query_parts(
             IF serialized(p.value)
             THEN Append(parts, p.key \o "=" \o format(p.value))
             ELSE parts,
             Tail(params))

\* "&".join(query_parts)
RECURSIVE join(_, _)
join(sep, parts) ==
    IF parts = <<>> THEN ""
    ELSE IF Len(parts) = 1 THEN parts[1]
    ELSE parts[1] \o sep \o join(sep, Tail(parts))

\* self._server, without a trailing "/"
Server == "https://api.haozhuma.com"

\* _build_url(api, **params): the query parts and the URL.
build_url(api, params) ==
    LET parts == query_parts(<<"api=" \o api>>, params) IN
    [parts |-> parts, url |-> Server \o "/sms/?" \o join("&", parts)]

\* The arguments of get_phone when none are handed over.
NoArgs ==
    [sid |-> PyInt(0), carrier |-> PyNone, province |-> PyNone,
     phone_type |-> PyNone, prefix |-> PyNone, exclude_prefix |-> PyNone,
     uid |-> PyNone, author |-> PyNone]

NoUrlIn == [kind |-> "none", tok |-> "", args |-> NoArgs, params |-> <<>>]
NoUrl == [parts |-> <<>>, url |-> ""]

\* ---------------------------------------------------------------- state
VARIABLES
    token,                \* HaoZhuClient._token ("" = unauthenticated)
    username,             \* HaoZhuClient._username
    password,             \* HaoZhuClient._password
    session,              \* HaoZhuClient._session (0 = None, else a resource)
    opened,               \* the connection resources that are open
    max_attempts,         \* retry's _max_attempts (settings.max_retries)
    delay,                \* retry's _delay (settings.retry_delay)
    exponential_backoff,  \* retry's exponential_backoff
    config,               \* HaoZhuClient._config: its retry parameters
    tasks,                \* per task: position and locals of its operation
    scope,                \* the caller: its `async with` block and loop
    cls_data,             \* classifier check: the envelope handed over
    cls_out,              \* classifier check: what _check_response did
    url_in,               \* request check: the arguments handed over
    url_out               \* request check: the query parts and the URL built

vars ==
    <<token, username, password, session, opened, max_attempts, delay,
      exponential_backoff, config, tasks, scope, cls_data, cls_out, url_in,
      url_out>>

client_vars == <<token, username, password, session, opened>>
retry_vars == <<max_attempts, delay, exponential_backoff, config>>
cls_vars == <<cls_data, cls_out>>
url_vars == <<url_in, url_out>>
pure_vars == <<cls_vars, url_vars>>

\* `self._config = config or settings` for a client built without a config
\* argument: the settings the decorators read, too.
settings_config == [max_retries |-> max_attempts, retry_delay |-> delay]

\* ------------------------------------------------------------ vocabulary
DomainApis ==
    {"getSummary", "getPhone", "getMessage", "cancelRecv", "cancelAllRecv",
     "addBlacklist"}

TransportKinds == {"ClientError", "TimeoutError"}

HaoZhuKinds ==
    {"AuthenticationError", "InsufficientBalanceError",
     "PhoneNotAvailableError", "MessageNotReadyError", "APIError",
     "RateLimitError"}

ServerTokens == {"T1", "T2"}

\* An exception object: its type and, for a transport failure, the attempt
\* that raised it (two failures of different attempts are different objects).
Exc(kind, n) == [kind |-> kind, n |-> n]
NoExc == Exc("None", 0)

\* What an operation's trace records, each with the retried call (login or
\* _request) and the attempt it belongs to: the wrapper being called, func
\* being called, the GET issued (api, token sent), the transport failure, the
\* sleep (secs), the decoded response (code, token field).
Ev(e, call, n) ==
    [e |-> e, call |-> call, n |-> n, api |-> "", tok |-> "", kind |-> "",
     secs |-> 0, code |-> ""]
EvCall(call) == Ev("call", call, 0)
EvAttempt(call, n) == Ev("attempt", call, n)
EvGet(call, n, api, tok) == [Ev("get", call, n) EXCEPT !.api = api, !.tok = tok]
EvFail(call, n, kind) == [Ev("fail", call, n) EXCEPT !.kind = kind]
EvSleep(call, n, secs) == [Ev("sleep", call, n) EXCEPT !.secs = secs]
EvResp(call, n, code, tok) ==
    [Ev("resp", call, n) EXCEPT !.code = code, !.tok = tok]

NoResult == [st |-> "none", exc |-> NoExc, val |-> ""]

\* A task that awaits nothing.  prev names the operation it completed last
\* (kept only until the next one starts), tok0 and ses0 the token and the
\* open resource the client held when the operation started.
IdleTask ==
    [pc |-> "idle", op |-> "none", call |-> "none", attempt |-> 0,
     last_exception |-> NoExc, tok |-> "", tok0 |-> "", ses0 |-> 0,
     prev |-> "none", result |-> NoResult, trace |-> <<>>]

\* The caller's place.  st: outside the `async with` block, inside its body,
\* or in __aexit__; closes counts the close() calls of this exit, exc tells
\* whether the body was left by an exception.  loop: the caller's polling
\* loop over get_message, when it runs one.
NoScope == [st |-> "outside", closes |-> 0, exc |-> FALSE, loop |-> "none"]

\* The envelopes the server answers with in the client's state machine.
SampleMsgs ==
    {<<Missing>>, <<"other">>, <<"TOKEN", "balance">>, <<"deduct">>,
     <<"number", "short">>, <<"waiting">>}

SampleCodes == {IntCode(0), StrCode("200"), StrCode("1"), IntCode(1), NoCode}

\* Answers to login: with or without a token field.
LoginEnvelopes ==
    [code : SampleCodes, msg : SampleMsgs,
     token : {Missing, ""} \cup ServerTokens]

\* Answers to the domain requests (no operation reads a token field there).
DomainEnvelopes == [code : SampleCodes, msg : SampleMsgs, token : {Missing}]

\* settings.retry_delay, in seconds.
Delays == {1, 3}

\* ------------------------------------------------------- retry (utils.py)
\* `except exceptions as e` with exceptions=(aiohttp.ClientError, TimeoutError)
retryable_any(exc) == TRUE

retryable(exc) == exc.kind \in TransportKinds

RECURSIVE pow2(_)
pow2(n) == IF n = 0 THEN 1 ELSE 2 * pow2(n - 1)

wait_time(attempt) ==
    IF exponential_backoff THEN delay * pow2(attempt - 1) ELSE delay

\* The operation ends: the exception leaves the outermost frame.
raise(tk, exc) ==
    [tk EXCEPT !.pc = "done",
               !.result = [st |-> "raise", exc |-> exc, val |-> ""]]

\* The operation ends with a value.
return(tk, val) ==
    [tk EXCEPT !.pc = "done",
               !.result = [st |-> "return", exc |-> NoExc, val |-> val]]

\* wrapper(): the for loop starts; with no iteration the code falls to
\* `raise RuntimeError(...)` because last_exception is still None.
wrapper_enter(tk, f) ==
    LET tk1 == [tk EXCEPT !.call = f, !.attempt = 1,
                          !.last_exception = NoExc,
                          !.trace = Append(@, EvCall(f))]
    IN  IF 1 <= max_attempts
        THEN [tk1 EXCEPT !.pc = "call"]
        ELSE raise(tk1, Exc("RuntimeError", 0))

wrapper_except_first(tk, exc) ==
    IF ~retryable(exc) THEN raise(tk, exc)
    ELSE IF tk.attempt < max_attempts
    THEN [tk EXCEPT !.last_exception = IF @ = NoExc THEN exc ELSE @,
                    !.pc = "sleep",
                    !.trace = Append(@, EvSleep(tk.call, tk.attempt,
                                                wait_time(tk.attempt)))]
    ELSE raise(tk, IF tk.last_exception = NoExc THEN exc
                   ELSE tk.last_exception)

wrapper_except_once_more(tk, exc) ==
    IF ~retryable(exc) THEN raise(tk, exc)
    ELSE IF tk.attempt <= max_attempts
    THEN [tk EXCEPT !.last_exception = exc,
                    !.pc = "sleep",
                    !.trace = Append(@, EvSleep(tk.call, tk.attempt,
                                                wait_time(tk.attempt)))]
    ELSE raise([tk EXCEPT !.last_exception = exc], exc)

\* func raised exc inside the wrapper's try at attempt tk.attempt.
wrapper_except(tk, exc) ==
    IF ~retryable(exc) THEN raise(tk, exc)
    ELSE IF tk.attempt < max_attempts
    THEN [tk EXCEPT !.last_exception = exc,
                    !.pc = "sleep",
                    !.trace = Append(@, EvSleep(tk.call, tk.attempt,
                                                wait_time(tk.attempt)))]
    ELSE raise([tk EXCEPT !.last_exception = exc], exc)


\* ---------------------------------------------------- client (client.py)
session_missing_always == TRUE

\* _ensure_session: `self._session is None or self._session.closed`
session_missing == session = 0 \/ session \notin opened

\* The resource aiohttp.ClientSession(...) creates: one that is not open and
\* is not the closed one the client still refers to.
new_session ==
    CHOOSE i \in 1..MaxSessions :
        /\ i \notin opened /\ i # session
        /\ \A j \in 1..MaxSessions : (j \notin opened /\ j # session) => i <= j

can_create == \E i \in 1..MaxSessions : i \notin opened /\ i # session

\* self._session after _ensure_session, and the open resources after it.
ensure_session == IF session_missing THEN new_session ELSE session
ensure_opened == IF session_missing THEN opened \cup {new_session} ELSE opened

\* login: `if not self._username or not self._password`
credentials_missing == username = "" \/ password = ""

\* _ensure_token: `if not self._token`
token_missing_never == FALSE

token_missing_always == TRUE

token_missing == token = ""

\* login: `if not self._token` after `self._token = data.get("token", "")`
login_token_empty_ignored(tok) == FALSE

login_token_empty(tok) == tok = ""

\* The open resource the client refers to (0 when it has none).
held_session == IF session # 0 /\ session \in opened THEN session ELSE 0

\* A fresh frame for operation op of the caller.
begin(op) ==
    [IdleTask EXCEPT !.op = op, !.tok0 = token, !.ses0 = held_session]

\* close: `if self._session and not self._session.closed`: the resource
\* close() closes, if any.
close_target_inverted ==
    IF session # 0 /\ session \notin opened THEN {session} ELSE {}

close_target ==
    IF session # 0 /\ session \in opened THEN {session} ELSE {}

\* __aexit__(exc_type, exc_val, exc_tb) calls close() whatever exc_type is.
aexit_closes_unless_exception(exc) == ~exc

aexit_closes(exc) == TRUE

Idle(t) == tasks[t].pc = "idle"

\* A caller-serialized client: the caller awaits one operation at a time.
Serialized(t) == \A u \in Tasks : tasks[u].pc = "idle"

\* await client.login()
Login(t) ==
    /\ Serialized(t)
    /\ tasks' = [tasks EXCEPT ![t] = wrapper_enter(begin("login"), "login")]
    /\ UNCHANGED <<client_vars, retry_vars, scope, pure_vars>>

\* A domain operation up to the wrapper it enters first: _ensure_token calls
\* login when no token is held, else _request is called with the held token.
domain_call(api) ==
    IF token_missing
    THEN wrapper_enter(begin(api), "login")
    ELSE wrapper_enter([begin(api) EXCEPT !.tok = token], "_request")

\* await client.<operation>(...), awaited before the next one starts.
DomainOp(t, api) ==
    /\ Serialized(t)
    /\ tasks' = [tasks EXCEPT ![t] = domain_call(api)]
    /\ UNCHANGED <<client_vars, retry_vars, scope, pure_vars>>

\* _ensure_token: `return self._token` right after `await self.login()`:
\* the token login has just stored.
ensure_token_return_stale(tk, held) == tk.tok0

ensure_token_return(tk, held) == held

\* One iteration of the wrapper's loop calls func: the body of login or of
\* _request up to `session.get(url)`.
Attempt(t) ==
    LET tk == [tasks[t] EXCEPT
                  !.trace = Append(@, EvAttempt(tasks[t].call,
                                                tasks[t].attempt))]
    IN
    /\ tasks[t].pc = "call"
    /\ IF tk.call = "login" /\ credentials_missing
       THEN /\ tasks' = [tasks EXCEPT ![t] =
                   wrapper_except(tk, Exc("AuthenticationError", 0))]
            /\ UNCHANGED <<session, opened>>
       ELSE /\ session_missing => can_create
            /\ session' = ensure_session
            /\ opened' = ensure_opened
            /\ tasks' = [tasks EXCEPT ![t] =
                   [tk EXCEPT !.pc = "get",
                              !.trace = Append(@,
                                  IF tk.call = "login"
                                  THEN EvGet("login", tk.attempt, "login", "")
                                  ELSE EvGet("_request", tk.attempt, tk.op,
                                             tk.tok))]]
    /\ UNCHANGED <<token, username, password, retry_vars, scope, pure_vars>>

\* session.get / raise_for_status / response.json fail with a transport or
\* timeout failure.
TransportFailure(t, kind) ==
    /\ tasks[t].pc = "get"
    /\ tasks' = [tasks EXCEPT ![t] =
           wrapper_except(
               [tasks[t] EXCEPT !.trace = Append(@,
                   EvFail(tasks[t].call, tasks[t].attempt, kind))],
               Exc(kind, tasks[t].attempt))]
    /\ UNCHANGED <<client_vars, retry_vars, scope, pure_vars>>

\* login's body once the response body data is decoded: _check_response,
\* then the token is stored, then checked.
login_response(t, data) ==
    LET new_token == token_of(data)
        tk == [tasks[t] EXCEPT !.trace = Append(@,
                  EvResp("login", tasks[t].attempt, code_of(data),
                         new_token))]
        verdict == check_response(data)
    IN  /\ IF verdict # "ok"
           THEN /\ tasks' = [tasks EXCEPT ![t] =
                       wrapper_except(tk, Exc(verdict, 0))]
                /\ UNCHANGED token
           ELSE /\ token' = new_token
                /\ tasks' = [tasks EXCEPT ![t] =
                       IF login_token_empty(new_token)
                       THEN wrapper_except(tk, Exc("AuthenticationError", 0))
                       ELSE IF tk.op = "login"
                       THEN return(tk, new_token)
                       ELSE wrapper_enter(
                                [tk EXCEPT !.tok =
                                     ensure_token_return(tk, new_token)],
                                "_request")]
        /\ UNCHANGED <<username, password, session, opened, retry_vars,
                       scope, pure_vars>>

\* The server answers the login request.
LoginResponse(t) ==
    /\ tasks[t].pc = "get" /\ tasks[t].call = "login"
    /\ \E data \in LoginEnvelopes : login_response(t, data)

\* _request returns the decoded body data; the domain operation checks it.
domain_response(t, data) ==
    LET tk == [tasks[t] EXCEPT !.trace = Append(@,
                  EvResp("_request", tasks[t].attempt, code_of(data), ""))]
        verdict == check_response(data)
    IN  /\ tasks' = [tasks EXCEPT ![t] =
               IF verdict # "ok"
               THEN raise(tk, Exc(verdict, 0))
               ELSE return(tk, "result")]
        /\ UNCHANGED <<client_vars, retry_vars, scope, pure_vars>>

\* The server answers the request of a domain operation.
DomainResponse(t) ==
    /\ tasks[t].pc = "get" /\ tasks[t].call = "_request"
    /\ \E data \in DomainEnvelopes : domain_response(t, data)

\* asyncio.sleep(wait_time) is over: the loop's next iteration.
SleepDone(t) ==
    /\ tasks[t].pc = "sleep"
    /\ tasks' = [tasks EXCEPT ![t] =
           [tasks[t] EXCEPT !.pc = "call", !.attempt = @ + 1]]
    /\ UNCHANGED <<client_vars, retry_vars, scope, pure_vars>>

\* __aenter__: await self._ensure_session(); the body of the block starts.
Enter(t) ==
    /\ Serialized(t)
    /\ scope.st = "outside"
    /\ session_missing => can_create
    /\ session' = ensure_session
    /\ opened' = ensure_opened
    /\ scope' = [NoScope EXCEPT !.st = "inside"]
    /\ tasks' = [tasks EXCEPT ![t] = return(begin("enter"), "self")]
    /\ UNCHANGED <<token, username, password, retry_vars, pure_vars>>

\* close() up to `await self._session.close()`: the resource is closed while
\* its close() is awaited.  Without an open resource close() returns at once.
close_call(op, prev) ==
    IF close_target # {}
    THEN [begin(op) EXCEPT !.pc = "closing", !.prev = prev]
    ELSE return([begin(op) EXCEPT !.prev = prev], "None")

\* await client.close()
Close(t) ==
    /\ Serialized(t)
    /\ opened' = opened \ close_target
    /\ tasks' = [tasks EXCEPT ![t] = close_call("close", tasks[t].prev)]
    /\ UNCHANGED <<token, username, password, session, retry_vars, scope,
                   pure_vars>>

\* The block is left, by its end or by the exception of the operation that
\* just failed in it: __aexit__ runs `await self.close()`.
Exit(t) ==
    LET exc == tasks[t].pc = "done" /\ tasks[t].result.st = "raise" IN
    /\ scope.st = "inside"
    /\ \A u \in Tasks \ {t} : tasks[u].pc = "idle"
    /\ tasks[t].pc = "idle" \/ exc
    /\ IF aexit_closes(exc)
       THEN /\ opened' = opened \ close_target
            /\ scope' = [scope EXCEPT !.st = "exiting", !.closes = @ + 1,
                                       !.exc = exc]
            /\ tasks' = [tasks EXCEPT ![t] = close_call("exit", "none")]
       ELSE /\ UNCHANGED opened
            /\ scope' = [scope EXCEPT !.st = "exiting", !.exc = exc]
            /\ tasks' = [tasks EXCEPT ![t] = return(begin("exit"), "None")]
    /\ UNCHANGED <<token, username, password, session, retry_vars, pure_vars>>

\* close(): `self._session = None` after the await.
CloseDone(t) ==
    /\ tasks[t].pc = "closing"
    /\ session' = 0
    /\ tasks' = [tasks EXCEPT ![t] = return(tasks[t], "None")]
    /\ UNCHANGED <<token, username, password, opened, retry_vars, scope,
                   pure_vars>>

\* What a finished operation leaves in prev.
op_kind(op) == IF op \in DomainApis THEN "domain" ELSE op

\* The caller takes the outcome of the operation it awaited; after __aexit__
\* the block is over.
Return(t) ==
    /\ tasks[t].pc = "done"
    /\ tasks' = [tasks EXCEPT ![t] =
           [IdleTask EXCEPT !.prev = op_kind(tasks[t].op)]]
    /\ scope' = IF tasks[t].op = "exit" THEN NoScope ELSE scope
    /\ UNCHANGED <<client_vars, retry_vars, pure_vars>>

\* ------------------------------------------------------- specifications
NoCls == [code |-> NoCode, msg |-> <<Missing>>, token |-> Missing]

\* After construction: credentials and token from the arguments or the
\* configuration (each possibly empty), no connection resource, and the retry
\* parameters read from the settings when the decorators were applied.
Init ==
    /\ token \in {"", "T0"}
    /\ username \in {"", "user"}
    /\ password \in {"", "pw"}
    /\ session = 0
    /\ opened = {}
    /\ max_attempts \in 0..MaxRetries
    /\ delay \in Delays
    /\ exponential_backoff \in BOOLEAN
    /\ config = settings_config
    /\ tasks = [t \in Tasks |-> IdleTask]
    /\ scope = NoScope
    /\ cls_data = NoCls
    /\ cls_out = "none"
    /\ url_in = NoUrlIn
    /\ url_out = NoUrl

Step(t) ==
    \/ Login(t)
    \/ \E api \in DomainApis : DomainOp(t, api)
    \/ Attempt(t)
    \/ \E kind \in TransportKinds : TransportFailure(t, kind)
    \/ LoginResponse(t)
    \/ DomainResponse(t)
    \/ SleepDone(t)
    \/ Enter(t)
    \/ Close(t)
    \/ Exit(t)
    \/ CloseDone(t)
    \/ Return(t)

\* One caller that awaits each operation before it starts the next.
Next == Step(MainTask)

Spec == Init /\ [][Next]_vars


\* ------------------------------------ the classifier as a pure function
\* Every message text of at most MaxMsgLen atoms, and an absent msg field.
AllMsgs == UNION {[1..n -> Atoms] : n \in 0..MaxMsgLen} \cup {<<Missing>>}

AllCodes ==
    {IntCode(0), IntCode(200), StrCode("0"), StrCode("200"), IntCode(1),
     StrCode("1"), StrCode("-1"), IntCode(20), NoCode}

InitClassifier ==
    /\ token = ""
    /\ username = "user"
    /\ password = "pw"
    /\ session = 0
    /\ opened = {}
    /\ max_attempts = 1
    /\ delay = 1
    /\ exponential_backoff = TRUE
    /\ config = settings_config
    /\ tasks = [t \in Tasks |-> IdleTask]
    /\ scope = NoScope
    /\ cls_data \in [code : AllCodes, msg : AllMsgs, token : {Missing}]
    /\ cls_out = "none"
    /\ url_in = NoUrlIn
    /\ url_out = NoUrl

\* self._check_response(cls_data): cls_out is "ok" or the kind it raised.
CheckResponse ==
    /\ cls_out = "none"
    /\ cls_out' = check_response(cls_data)
    /\ UNCHANGED <<client_vars, retry_vars, tasks, scope, cls_data, url_vars>>

NextClassifier == CheckResponse

SpecClassifier == InitClassifier /\ [][NextClassifier]_vars

\* ------------------------------------- request building as a pure function
\* Arguments of get_phone: each filter absent, set, and set to the value
\* Python takes for false (0, "").
GetPhoneArgs ==
    [sid : {PyInt(1000)},
     carrier : {PyNone, PyInt(16)},
     province : {PyNone, PyInt(0), PyInt(44)},
     phone_type : {PyNone, PyInt(0), PyInt(1)},
     prefix : {PyNone, PyStr(""), PyStr("1380|1580")},
     exclude_prefix : {PyNone, PyStr(""), PyStr("170")},
     uid : {PyNone, PyStr(""), PyStr("u1")},
     author : {PyNone, PyStr(""), PyStr("dev")}]

ParamKeys == {"token", "sid", "phone"}
ParamValues == {PyNone, PyInt(0), PyInt(25), PyStr(""), PyStr("T1")}

\* Keyword arguments of _build_url: at most MaxParams of them, each key once.
ParamLists ==
    {ps \in UNION {[1..n -> [key : ParamKeys, value : ParamValues]] :
                       n \in 0..MaxParams} :
        \A i, j \in 1..Len(ps) : ps[i].key = ps[j].key => i = j}

InitRequest ==
    /\ token = ""
    /\ username = "user"
    /\ password = "pw"
    /\ session = 0
    /\ opened = {}
    /\ max_attempts = 1
    /\ delay = 1
    /\ exponential_backoff = TRUE
    /\ config = settings_config
    /\ tasks = [t \in Tasks |-> IdleTask]
    /\ scope = NoScope
    /\ cls_data = NoCls
    /\ cls_out = "none"
    /\ \/ url_in \in [kind : {"get_phone"}, tok : ServerTokens,
                      args : GetPhoneArgs, params : {<<>>}]
       \/ url_in \in [kind : {"build_url"}, tok : {""}, args : {NoArgs},
                      params : ParamLists]
    /\ url_out = NoUrl

\* get_phone, from the token it got to the URL _request builds.
GetPhoneRequest ==
    /\ url_in.kind = "get_phone"
    /\ url_out = NoUrl
    /\ url_out' = build_url("getPhone",
                            get_phone_params(url_in.tok, url_in.args))
    /\ UNCHANGED <<client_vars, retry_vars, tasks, scope, cls_vars, url_in>>

\* self._build_url("getMessage", **url_in.params)
BuildUrl ==
    /\ url_in.kind = "build_url"
    /\ url_out = NoUrl
    /\ url_out' = build_url("getMessage", url_in.params)
    /\ UNCHANGED <<client_vars, retry_vars, tasks, scope, cls_vars, url_in>>

NextRequest == GetPhoneRequest \/ BuildUrl

SpecRequest == InitRequest /\ [][NextRequest]_vars

\* ------------------------------------------------- the caller's polling loop
\* A caller that polls: `try: msg = await client.get_message(...); break`
\* and `except MessageNotReadyError: await asyncio.sleep(2)`, on a client
\* just constructed.
InitPolling ==
    /\ token \in {"", "T0"}
    /\ username \in {"", "user"}
    /\ password \in {"", "pw"}
    /\ session = 0
    /\ opened = {}
    /\ max_attempts \in 0..MaxRetries
    /\ delay \in Delays
    /\ exponential_backoff \in BOOLEAN
    /\ config = settings_config
    /\ tasks = [t \in Tasks |-> IdleTask]
    /\ scope = [NoScope EXCEPT !.loop = "polling"]
    /\ cls_data = NoCls
    /\ cls_out = "none"
    /\ url_in = NoUrlIn
    /\ url_out = NoUrl

\* msg = await client.get_message(sid=sid, phone=phone.phone)
Poll(t) ==
    /\ scope.loop = "polling"
    /\ DomainOp(t, "getMessage")

\* What the loop does with the outcome of get_message: a Message ends it,
\* MessageNotReadyError makes it poll again, any other exception leaves it.
loop_after(result) ==
    IF result.st = "return" THEN "message"
    ELSE IF result.exc.kind = "MessageNotReadyError" THEN "polling"
    ELSE "failed"

\* get_message is over and the loop goes on from its outcome.
PollReturn(t) ==
    /\ tasks[t].pc = "done"
    /\ scope.loop = "polling"
    /\ tasks' = [tasks EXCEPT ![t] =
           [IdleTask EXCEPT !.prev = op_kind(tasks[t].op)]]
    /\ scope' = [scope EXCEPT !.loop = loop_after(tasks[t].result)]
    /\ UNCHANGED <<client_vars, retry_vars, pure_vars>>

StepPolling(t) ==
    \/ Poll(t)
    \/ Attempt(t)
    \/ \E kind \in TransportKinds : TransportFailure(t, kind)
    \/ LoginResponse(t)
    \/ DomainResponse(t)
    \/ SleepDone(t)
    \/ PollReturn(t)

NextPolling == StepPolling(MainTask)

\* The event loop resumes a task that can go on, and every request ends, by
\* a response or by a failure (the session has a total timeout).
SpecPolling == InitPolling /\ [][NextPolling]_vars /\ WF_vars(NextPolling)

\* ------------------------------------------------- concurrent operations
\* An unauthenticated client shared by tasks that each run one domain
\* operation (asyncio.gather / create_task): the tasks interleave where they
\* await the network or a sleep.
ConcApis == {"getPhone", "getMessage"}
ConcAttempts == {1, 2}

\* What the server answers a login with: a token, another token, success
\* without a token, a rejection.
ConcLoginEnvelopes ==
    {[code |-> IntCode(0), msg |-> <<"other">>, token |-> "T1"],
     [code |-> StrCode("200"), msg |-> <<"other">>, token |-> "T2"],
     [code |-> IntCode(0), msg |-> <<"other">>, token |-> Missing],
     [code |-> IntCode(1), msg |-> <<"password">>, token |-> Missing]}

\* What the server answers a domain request with: success, or a rejection.
ConcDomainEnvelopes ==
    {[code |-> IntCode(0), msg |-> <<"other">>, token |-> Missing],
     [code |-> IntCode(1), msg |-> <<"token">>, token |-> Missing]}

InitConcurrent ==
    /\ token = ""
    /\ username = "user"
    /\ password \in {"", "pw"}
    /\ session = 0
    /\ opened = {}
    /\ max_attempts \in ConcAttempts
    /\ delay = 1
    /\ exponential_backoff = TRUE
    /\ config = settings_config
    /\ tasks = [t \in Tasks |-> IdleTask]
    /\ scope = NoScope
    /\ cls_data = NoCls
    /\ cls_out = "none"
    /\ url_in = NoUrlIn
    /\ url_out = NoUrl

\* A task starts its operation while others may be in theirs.
ConcurrentOp(t, api) ==
    /\ Idle(t)
    /\ tasks' = [tasks EXCEPT ![t] = domain_call(api)]
    /\ UNCHANGED <<client_vars, retry_vars, scope, pure_vars>>

ConcurrentLoginResponse(t) ==
    /\ tasks[t].pc = "get" /\ tasks[t].call = "login"
    /\ \E data \in ConcLoginEnvelopes : login_response(t, data)

ConcurrentDomainResponse(t) ==
    /\ tasks[t].pc = "get" /\ tasks[t].call = "_request"
    /\ \E data \in ConcDomainEnvelopes : domain_response(t, data)

StepConcurrent(t) ==
    \/ \E api \in ConcApis : ConcurrentOp(t, api)
    \/ Attempt(t)
    \/ TransportFailure(t, "ClientError")
    \/ ConcurrentLoginResponse(t)
    \/ ConcurrentDomainResponse(t)
    \/ SleepDone(t)

NextConcurrent == \E t \in Tasks : StepConcurrent(t)

SpecConcurrent == InitConcurrent /\ [][NextConcurrent]_vars

\* ------------------------------------------- a client with its own config
\* HaoZhuClient(config=HaoZhuSettings(max_retries=..., retry_delay=...)):
\* the client's configuration is its own object, the decorators of login and
\* _request have read the module's settings when the class was defined.
InitConfig ==
    /\ token \in {"", "T0"}
    /\ username = "user"
    /\ password = "pw"
    /\ session = 0
    /\ opened = {}
    /\ max_attempts \in 1..MaxRetries
    /\ delay \in Delays
    /\ exponential_backoff = TRUE
    /\ config \in [max_retries : 1..MaxRetries, retry_delay : Delays]
    /\ tasks = [t \in Tasks |-> IdleTask]
    /\ scope = NoScope
    /\ cls_data = NoCls
    /\ cls_out = "none"
    /\ url_in = NoUrlIn
    /\ url_out = NoUrl

StepConfig(t) ==
    \/ Login(t)
    \/ DomainOp(t, "getSummary")
    \/ Attempt(t)
    \/ \E kind \in TransportKinds : TransportFailure(t, kind)
    \/ LoginResponse(t)
    \/ DomainResponse(t)
    \/ SleepDone(t)
    \/ Return(t)

NextConfig == StepConfig(MainTask)

SpecConfig == InitConfig /\ [][NextConfig]_vars

\* ------------------------------------- close() beside another operation
\* Tasks that share an authenticated client; each runs get_message or close()
\* and the tasks interleave where they await: the request, the sleep of the
\* wrapper, and the resource's own close().
InitClose ==
    /\ token = "T0"
    /\ username = "user"
    /\ password = "pw"
    /\ session = 0
    /\ opened = {}
    /\ max_attempts \in ConcAttempts
    /\ delay = 1
    /\ exponential_backoff = TRUE
    /\ config = settings_config
    /\ tasks = [t \in Tasks |-> IdleTask]
    /\ scope = NoScope
    /\ cls_data = NoCls
    /\ cls_out = "none"
    /\ url_in = NoUrlIn
    /\ url_out = NoUrl

\* await client.close(), started while other tasks may be in an operation.
ConcurrentClose(t) ==
    /\ Idle(t)
    /\ opened' = opened \ close_target
    /\ tasks' = [tasks EXCEPT ![t] = close_call("close", tasks[t].prev)]
    /\ UNCHANGED <<token, username, password, session, retry_vars, scope,
                   pure_vars>>

\* A request is answered only over a resource that is still open; on a
\* closed one it ends with a transport failure.
AnsweredWhileOpen(t) ==
    /\ session \in opened
    /\ ConcurrentDomainResponse(t)

StepClose(t) ==
    \/ ConcurrentOp(t, "getMessage")
    \/ ConcurrentClose(t)
    \/ Attempt(t)
    \/ TransportFailure(t, "ClientError")
    \/ AnsweredWhileOpen(t)
    \/ SleepDone(t)
    \/ CloseDone(t)
    \/ Return(t)

NextClose == \E t \in Tasks : StepClose(t)

SpecClose == InitClose /\ [][NextClose]_vars


\* ------------------------------------------------------------ properties
\* Reading an operation's trace.
Has(tk, e, call) ==
    \E i \in 1..Len(tk.trace) : tk.trace[i].e = e /\ tk.trace[i].call = call

HasAny(tk, e) == \E i \in 1..Len(tk.trace) : tk.trace[i].e = e

Count(tk, e, call) ==
    Cardinality({i \in 1..Len(tk.trace) :
                    tk.trace[i].e = e /\ tk.trace[i].call = call})

Last(tk) == tk.trace[Len(tk.trace)]

IsDomain(tk) == tk.op \in DomainApis

Raised(tk, kind) ==
    tk.pc = "done" /\ tk.result.st = "raise" /\ tk.result.exc.kind = kind

\* The last thing the operation saw was login's response.
LoginAnswered(tk) ==
    /\ tk.call = "login" /\ tk.trace # <<>>
    /\ Last(tk).e = "resp" /\ Last(tk).call = "login"

\* C1: every GET of a domain operation carries a non-empty token, the held
\* token is non-empty while a domain request is in flight, and the token
\* _ensure_token handed to the operation is non-empty.
C1_DomainRequestsCarryToken ==
    \A t \in Tasks :
        LET tk == tasks[t] IN
        /\ \A i \in 1..Len(tk.trace) :
              (tk.trace[i].e = "get" /\ tk.trace[i].call = "_request")
                  => tk.trace[i].tok # ""
        /\ (tk.pc = "get" /\ tk.call = "_request") => token # ""
        /\ tk.call = "_request" => tk.tok # ""

\* C1 witness: an operation that started without a token has sent its domain
\* request with the token of the login it triggered.
C1_Witness ==
    \E t \in Tasks :
        /\ IsDomain(tasks[t]) /\ tasks[t].tok0 = ""
        /\ \E i \in 1..Len(tasks[t].trace) :
              /\ tasks[t].trace[i].e = "get"
              /\ tasks[t].trace[i].call = "_request"
              /\ tasks[t].trace[i].tok \in ServerTokens

\* C2 (as claimed): once the held token is non-empty it stays non-empty.
C2_TokenStaysNonEmpty == [][token # "" => token' # ""]_vars

\* C3 (as claimed): an operation that ends by raising AuthenticationError
\* leaves the held token as it was when the operation started.
C3_AuthErrorKeepsToken ==
    \A t \in Tasks :
        Raised(tasks[t], "AuthenticationError") => token = tasks[t].tok0

\* C4 (as claimed): a finished domain operation has issued a login request
\* if and only if the held token was empty when it started (stated for a
\* client whose wrapper runs func at least once).
C4_LoginRequestIffNoToken ==
    \A t \in Tasks :
        (IsDomain(tasks[t]) /\ tasks[t].pc = "done" /\ max_attempts >= 1)
            => (Has(tasks[t], "get", "login") <=> tasks[t].tok0 = "")

\* C4 (amended): a domain operation calls login if and only if the held token
\* was empty when it started; it issues a login request only then, and only
\* with both credentials present; with a token held it issues no login
\* request, keeps the token, and sends its request once per attempt that
\* the transport failed (never again after an answer).
C4_LoginCalledIffNoToken ==
    \A t \in Tasks :
        LET tk == tasks[t] IN
        IsDomain(tk) =>
            /\ Has(tk, "call", "login") <=> tk.tok0 = ""
            /\ Count(tk, "call", "login") <= 1
            /\ Has(tk, "get", "login")
                  => (tk.tok0 = "" /\ username # "" /\ password # "")
            /\ tk.tok0 # ""
                  => /\ ~Has(tk, "attempt", "login")
                     /\ ~Has(tk, "get", "login")
                     /\ token = tk.tok0
            /\ Count(tk, "get", "_request")
                  <= 1 + Count(tk, "fail", "_request")
            /\ Has(tk, "resp", "_request")
                  => /\ tk.pc = "done"
                     /\ Last(tk).e = "resp"
                     /\ Count(tk, "resp", "_request") = 1

\* C4 witness: a finished domain operation that started without a token and
\* issued the login request and then its own request.
C4_Witness ==
    \E t \in Tasks :
        /\ IsDomain(tasks[t]) /\ tasks[t].pc = "done"
        /\ tasks[t].tok0 = ""
        /\ Has(tasks[t], "get", "login")
        /\ Has(tasks[t], "get", "_request")

\* C5 (as claimed): a login that got a response with a non-success code
\* fails with AuthenticationError.
C5_RejectedLoginIsAuthError ==
    \A t \in Tasks :
        (LoginAnswered(tasks[t]) /\ ~(Last(tasks[t]).code \in {"0", "200"}))
            => Raised(tasks[t], "AuthenticationError")

\* C6 (as claimed): a login with an empty username or password, explicit or
\* triggered by a domain operation, fails with AuthenticationError with no
\* GET, no second attempt and no sleep.
C6_EmptyCredentialsFailFast ==
    \A t \in Tasks :
        LET tk == tasks[t] IN
        (tk.pc = "done" /\ Has(tk, "call", "login")
            /\ (username = "" \/ password = ""))
            => /\ Raised(tk, "AuthenticationError")
               /\ ~HasAny(tk, "get")
               /\ ~HasAny(tk, "sleep")
               /\ Count(tk, "attempt", "login") <= 1

\* C7: a login answered with a success code and no (or an empty) token ends
\* by raising AuthenticationError: it returns no token and the operation
\* that triggered it sends no request.
C7_SuccessWithoutTokenFails ==
    \A t \in Tasks :
        LET tk == tasks[t] IN
        (LoginAnswered(tk) /\ Last(tk).code \in {"0", "200"}
            /\ Last(tk).tok = "")
            => /\ Raised(tk, "AuthenticationError")
               /\ tk.result.val = ""
               /\ ~Has(tk, "call", "_request")

\* C7 witness: an explicit login was answered with success and no token.
C7_Witness ==
    \E t \in Tasks :
        /\ tasks[t].op = "login" /\ LoginAnswered(tasks[t])
        /\ Last(tasks[t]).code \in {"0", "200"} /\ Last(tasks[t]).tok = ""

\* The events of the retried call the task is in (or ended in).
CallSeg(tk) == SelectSeq(tk.trace, LAMBDA ev : ev.call = tk.call)

\* The call is over and each of its attempts failed with a transport failure.
AllAttemptsFailed(tk) ==
    /\ tk.pc = "done" /\ tk.call \in {"login", "_request"}
    /\ Has(tk, "attempt", tk.call)
    /\ Count(tk, "attempt", tk.call) = Count(tk, "fail", tk.call)

ClaimedWait(k) == IF exponential_backoff THEN delay * 2 ^ (k - 1) ELSE delay

C9_NoRetryOfApplicationFailure ==
    \A t \in Tasks :
        LET tk == tasks[t] IN
        \A i \in 1..Len(tk.trace) :
            /\ (tk.trace[i].e = "resp" /\ ~(tk.trace[i].code \in {"0", "200"}))
                  => /\ i = Len(tk.trace)
                     /\ tk.pc = "done" /\ tk.result.st = "raise"
                     /\ tk.result.exc.kind \in HaoZhuKinds
            /\ (tk.trace[i].e = "attempt" /\ tk.trace[i].n > 1)
                  => /\ i > 2
                     /\ tk.trace[i - 1].e = "sleep"
                     /\ tk.trace[i - 2].e = "fail"
                     /\ tk.trace[i - 2].call = tk.trace[i].call

\* C9 witness: login, triggered by a domain operation, was rejected.
C9_Witness ==
    \E t \in Tasks :
        /\ IsDomain(tasks[t]) /\ LoginAnswered(tasks[t])
        /\ ~(Last(tasks[t]).code \in {"0", "200"})

\* Keywords of the text handed to the classifier.
Mentions(kws) ==
    \E i \in 1..Len(cls_data.msg) : cls_data.msg[i] \in kws

SuccessCodes == {IntCode(0), IntCode(200), StrCode("0"), StrCode("200")}

AuthWords == Mentions({"token", "Token", "TOKEN", "login", "password"})
BalanceWords == Mentions({"balance", "deduct"})
PhoneWords ==
    Mentions({"number"}) /\ Mentions({"none", "nothave", "short"})
MessageWords ==
    Mentions({"waiting"})
        \/ (Mentions({"sms"}) /\ Mentions({"none", "nothave"}))

C11_SuccessNeverRaises ==
    (cls_out # "none" /\ cls_data.code \in SuccessCodes) => cls_out = "ok"

\* C11 witness: the integer 200 with a message full of failure keywords was
\* checked.
C11_Witness ==
    /\ cls_out = "ok"
    /\ cls_data.code = IntCode(200)
    /\ cls_data.msg = <<"token", "balance">>


\* C12: leaving the `async with` block, at its end or by the exception of an
\* operation in it, calls close() exactly once and leaves no connection
\* resource open; after entering the block an open resource exists before the
\* first operation.
C12_ScopeClosesOnce ==
    /\ scope.st = "inside" => scope.closes = 0
    /\ scope.st = "exiting" => scope.closes = 1
    /\ \A t \in Tasks :
        /\ (tasks[t].op = "exit" /\ tasks[t].pc = "done") =>
               /\ tasks[t].result.st = "return"
               /\ scope.closes = 1
               /\ opened = {}
               /\ held_session = 0
        /\ (tasks[t].op = "enter" /\ tasks[t].pc = "done") => held_session # 0
        /\ (tasks[t].pc = "idle" /\ tasks[t].prev = "enter") =>
               held_session # 0

\* C12 witness: the block has been left by the exception of an operation
\* while a resource was open, and __aexit__ has finished.
C12_Witness ==
    /\ scope.st = "exiting"
    /\ scope.exc
    /\ tasks[MainTask].op = "exit"
    /\ tasks[MainTask].pc = "done"
    /\ tasks[MainTask].ses0 # 0

\* C13: close() is idempotent.  It never raises and leaves no resource open;
\* called when the client has no open resource (never opened, just closed by
\* close(), or closed by the end of the block) it returns at once and changes
\* nothing of the client, so one call and several calls end in the same state.
C13_CloseIdempotent ==
    /\ [](\A t \in Tasks :
            (tasks[t].op = "close" /\ tasks[t].pc = "done") =>
                /\ tasks[t].result.st = "return"
                /\ opened = {}
                /\ held_session = 0)
    /\ [][\A t \in Tasks :
            ( /\ tasks[t].pc = "idle"
              /\ tasks'[t].op = "close"
              /\ \/ tasks[t].prev \in {"close", "exit"}
                 \/ session = 0 ) =>
                /\ tasks'[t].pc = "done"
                /\ tasks'[t].result.st = "return"
                /\ UNCHANGED client_vars]_vars

\* C13 witness: close() has returned from a call made right after close().
C13_Witness ==
    /\ tasks[MainTask].op = "close"
    /\ tasks[MainTask].pc = "done"
    /\ tasks[MainTask].prev = "close"


\* C14: the request of get_phone is api=getPhone, token, sid and then the
\* filters in the order operator, province, phone_type, prefix,
\* exclude_prefix, uid, author; a filter passed as None (or as "" for the
\* text filters) is absent, a filter with a value is there once; _build_url
\* serializes no None parameter and keeps the order of those it is given.
Filter(key, v, present) ==
    IF present THEN "&" \o key \o "=" \o format(v) ELSE ""

Given(v) == v.ty # "none"
GivenText(v) == v.ty = "str" /\ v.s # ""

ExpectedGetPhoneUrl(tok, a) ==
    Server \o "/sms/?api=getPhone&token=" \o tok \o "&sid=" \o format(a.sid)
    \o Filter("operator", a.carrier, Given(a.carrier))
    \o Filter("province", a.province, Given(a.province))
    \o Filter("phone_type", a.phone_type, Given(a.phone_type))
    \o Filter("prefix", a.prefix, GivenText(a.prefix))
    \o Filter("exclude_prefix", a.exclude_prefix, GivenText(a.exclude_prefix))
    \o Filter("uid", a.uid, GivenText(a.uid))
    \o Filter("author", a.author, GivenText(a.author))

\* The position in query_parts of the i-th parameter, when it is not None.
PartOf(ps, i) == 1 + Cardinality({j \in 1..i : ps[j].value.ty # "none"})

C14_GetPhoneRequest ==
    /\ (url_in.kind = "get_phone" /\ url_out # NoUrl) =>
           url_out.url = ExpectedGetPhoneUrl(url_in.tok, url_in.args)
    /\ (url_in.kind = "build_url" /\ url_out # NoUrl) =>
           LET ps == url_in.params
               kept == {i \in 1..Len(ps) : ps[i].value.ty # "none"}
           IN  /\ Len(url_out.parts) = 1 + Cardinality(kept)
               /\ url_out.parts[1] = "api=getMessage"
               /\ \A i \in kept :
                      url_out.parts[PartOf(ps, i)] =
                          ps[i].key \o "=" \o format(ps[i].value)
               /\ url_out.url = Server \o "/sms/?" \o join("&", url_out.parts)

\* C14 witness: get_phone built a request with phone_type 0 and province 0
\* (values, not None), empty text filters and an exclude_prefix filter.
C14_Witness ==
    /\ url_in.kind = "get_phone"
    /\ url_in.args.carrier = PyNone
    /\ url_in.args.province = PyInt(0)
    /\ url_in.args.phone_type = PyInt(0)
    /\ url_in.args.prefix = PyStr("")
    /\ url_in.args.exclude_prefix = PyStr("170")
    /\ url_in.args.uid = PyNone
    /\ url_in.args.author = PyStr("")
    /\ url_in.tok = "T1"
    /\ url_out.url = "https://api.haozhuma.com/sms/?api=getPhone&token=T1"
                     \o "&sid=1000&province=0&phone_type=0&exclude_prefix=170"


\* C15: a retried call makes at most N attempts; when attempt k is the first
\* that does not fail with a transport or timeout failure (it got a response,
\* or login refused to send for want of credentials), the call has made
\* exactly k attempts and k-1 waits, nothing of the call follows, and the call
\* has returned that attempt's result or raised its exception.
Decisive(tk, i) ==
    \/ tk.trace[i].e = "resp"
    \/ /\ tk.trace[i].e = "attempt" /\ i = Len(tk.trace)
       /\ tk.pc = "done" /\ tk.result.exc.kind = "AuthenticationError"

C15_RetryTerminates ==
    \A t \in Tasks :
        LET tk == tasks[t] IN
        \A c \in {"login", "_request"} :
            /\ Count(tk, "attempt", c) <= max_attempts
            /\ \A i \in 1..Len(tk.trace) :
                  (tk.trace[i].call = c /\ Decisive(tk, i)) =>
                      LET k == tk.trace[i].n IN
                      /\ k >= 1 /\ k <= max_attempts
                      /\ Count(tk, "attempt", c) = k
                      /\ Count(tk, "sleep", c) = k - 1
                      /\ Count(tk, "fail", c) = k - 1
                      /\ \A j \in (i + 1)..Len(tk.trace) : tk.trace[j].call # c
                      /\ \/ /\ tk.pc = "done"
                            /\ i = Len(tk.trace)
                            /\ tk.result.st = "raise" =>
                                   tk.result.exc.kind \in HaoZhuKinds
                         \/ /\ c = "login" /\ tk.call = "_request"
                            /\ tk.trace[i].code \in {"0", "200"}
                            /\ tk.tok = tk.trace[i].tok

\* C15 witness: the second attempt of a _request got the response after the
\* first failed, a third being allowed.
C15_Witness ==
    \E t \in Tasks :
        /\ max_attempts >= 2
        /\ tasks[t].pc = "done" /\ tasks[t].trace # <<>>
        /\ Last(tasks[t]).e = "resp" /\ Last(tasks[t]).call = "_request"
        /\ Last(tasks[t]).n = 2
        /\ Count(tasks[t], "sleep", "_request") = 1


\* C16: under caller-serialized operations at most one resource the client
\* created is open, and it is the one the client refers to; a resource is
\* created only when the client has none or holds a closed one; an attempt
\* after the first reuses the open resource.
C16_OneOpenResource ==
    /\ [](Cardinality(opened) <= 1 /\ (opened # {} => opened = {session}))
    /\ [][opened' \ opened # {} => (session = 0 \/ session \notin opened)]_vars
    /\ [][\A t \in Tasks :
            (tasks[t].pc = "call" /\ tasks'[t].pc = "get"
             /\ tasks[t].attempt > 1) =>
                (session \in opened /\ UNCHANGED <<session, opened>>)]_vars

\* C16 witness: the second attempt of a call has sent its request over the
\* resource the first attempt created.
C16_Witness ==
    \E t \in Tasks :
        /\ tasks[t].pc = "get" /\ tasks[t].attempt = 2
        /\ tasks[t].ses0 = 0
        /\ opened = {session}


\* Reading get_message's outcome.
NotReady(tk) == tk.op = "getMessage" /\ Raised(tk, "MessageNotReadyError")

\* C17 (as claimed): a get_message call that raises MessageNotReadyError and
\* met no transport failure has issued exactly one getMessage request, and
\* the token it found held is still the held token.
C17_NotReadyAfterOneRequest ==
    \A t \in Tasks :
        (NotReady(tasks[t]) /\ ~HasAny(tasks[t], "fail")) =>
            /\ Count(tasks[t], "get", "_request") = 1
            /\ tasks[t].tok0 # "" => token = tasks[t].tok0


\* C18: a response whose code is not a success code, a response without a
\* code field and one without a msg field included, makes _check_response
\* raise one of AuthenticationError, InsufficientBalanceError,
\* PhoneNotAvailableError, MessageNotReadyError and APIError; RateLimitError
\* is never raised.
C18_NonSuccessRaisesOneOfFive ==
    /\ cls_out # "RateLimitError"
    /\ (cls_out # "none" /\ cls_data.code \notin SuccessCodes) =>
           cls_out \in {"AuthenticationError", "InsufficientBalanceError",
                        "PhoneNotAvailableError", "MessageNotReadyError",
                        "APIError"}
    /\ \A t \in Tasks : tasks[t].result.exc.kind # "RateLimitError"

\* C18 witness: a response with neither code nor msg raised APIError.
C18_Witness ==
    /\ cls_data.code = NoCode
    /\ cls_data.msg = <<Missing>>
    /\ cls_out = "APIError"


\* The logins the tasks have made so far, and the tokens they were given.
LoginSucceeded(tk) ==
    \E i \in 1..Len(tk.trace) :
        /\ tk.trace[i].e = "resp" /\ tk.trace[i].call = "login"
        /\ tk.trace[i].code \in {"0", "200"} /\ tk.trace[i].tok # ""

Issued ==
    {tok \in ServerTokens :
        \E t \in Tasks : \E i \in 1..Len(tasks[t].trace) :
            /\ tasks[t].trace[i].e = "resp"
            /\ tasks[t].trace[i].call = "login"
            /\ tasks[t].trace[i].code \in {"0", "200"}
            /\ tasks[t].trace[i].tok = tok}

\* C19: with domain operations running concurrently on a client that starts
\* without a token, every domain request sent carries a non-empty token that
\* a successful login was given, and when every login made has succeeded the
\* held token is the token of one of them.
C19_ConcurrentLogins ==
    /\ \A t \in Tasks : \A i \in 1..Len(tasks[t].trace) :
          (tasks[t].trace[i].e = "get" /\ tasks[t].trace[i].call = "_request")
              => (tasks[t].trace[i].tok # "" /\ tasks[t].trace[i].tok \in Issued)
    /\ ( /\ \E t \in Tasks : Has(tasks[t], "call", "login")
         /\ \A t \in Tasks :
               Has(tasks[t], "call", "login") => LoginSucceeded(tasks[t]) )
           => token \in Issued

\* C19 witness: two logins were in flight together, both succeeded with
\* different tokens, and each task sent its request with its own.
C19_Witness ==
    /\ Has(tasks["t1"], "get", "login") /\ Has(tasks["t2"], "get", "login")
    /\ tasks["t1"].pc = "get" /\ tasks["t1"].call = "_request"
    /\ tasks["t2"].pc = "get" /\ tasks["t2"].call = "_request"
    /\ tasks["t1"].tok = "T1" /\ tasks["t2"].tok = "T2"
    /\ token = "T1"


\* The retried call of the operation (login or _request) ended by raising:
\* the operation raised, and not from _check_response on a body that
\* _request returned.
RetriedCallRaised(tk) ==
    /\ tk.pc = "done" /\ tk.result.st = "raise"
    /\ tk.call \in {"login", "_request"}
    /\ ~(Last(tk).e = "resp" /\ Last(tk).call = "_request")

\* C20 (as claimed): whatever the attempt ceiling is, a retried call that
\* ends by raising has attempted the wrapped operation at least once, and
\* raises an exception that one of its attempts raised.
C20_RaisesWhatTheOperationRaised ==
    \A t \in Tasks :
        RetriedCallRaised(tasks[t]) =>
            /\ Has(tasks[t], "attempt", tasks[t].call)
            /\ tasks[t].result.exc.kind \in TransportKinds \cup HaoZhuKinds


\* C21 (as claimed): the attempt ceiling and the base delay of a client's
\* retried calls are those of the configuration it was built with: a call
\* whose attempts all failed has made config.max_retries attempts, and each
\* wait is config.retry_delay * 2^(k-1).
C21_RetriesFollowClientConfig ==
    \A t \in Tasks :
        LET tk == tasks[t] IN
        /\ AllAttemptsFailed(tk) =>
              Count(tk, "attempt", tk.call) = config.max_retries
        /\ \A i \in 1..Len(tk.trace) :
              tk.trace[i].e = "sleep" =>
                  tk.trace[i].secs =
                      config.retry_delay * 2 ^ (tk.trace[i].n - 1)


\* C22 (as claimed): however close() interleaves with another operation of
\* the client, every open resource the client created is the one the client
\* refers to, and close() drops the reference only to a closed resource.
C22_NoOrphanedResource ==
    /\ [](\A s \in opened : s = session)
    /\ [][(session # 0 /\ session' = 0) => session \notin opened]_vars

====
